---------------------------- MODULE Spec2Model ----------------------------
(***************************************************************************)
(* A model of program_10.py: daily streamflow records of two USGS gauges   *)
(* are read, clipped to a period, summarised per water year and per month, *)
(* averaged, and written to four files.                                    *)
(*                                                                         *)
(* Numbers.  A floating value is modelled by an exact fraction <<n, d>>    *)
(* with d >= 0 in lowest terms: d = 0 encodes the IEEE specials, <<0, 0>>  *)
(* is NaN and <<1, 0>>, <<-1, 0>> are +inf, -inf.  Rounding error is not   *)
(* modelled.                                                               *)
(* Dates.  A date is <<year, month, day>> in the Gregorian calendar; the   *)
(* records are daily, so the time of day is always midnight.               *)
(* Tables.  A DataFrame is the sequence of its rows in index order, each   *)
(* row a record holding its index label and its columns.                   *)
(***************************************************************************)
EXTENDS Integers, Sequences, FiniteSets, TLC

VARIABLES
    pc,              \* position of the script / of the function harness
    fileName,        \* station key -> the content of its input file
    todo,            \* station keys the loop of line 230 has still to visit
    file,            \* loop variable of line 230
    DataDF,          \* station key -> DataFrame            (line 222)
    MissingValues,   \* station key -> missing-value count  (line 223)
    WYDataDF,        \* station key -> annual metrics       (line 224)
    MoDataDF,        \* station key -> monthly metrics      (line 225)
    AnnualAverages,  \* station key -> annual averages      (line 226)
    MonthlyAverages, \* station key -> monthly averages     (line 227)
    written,         \* the output files written so far, in order
    hist,            \* the calls completed so far, in order: <<station, function>>
    arg,             \* function harness: the argument under test
    res              \* function harness: the results computed so far

vars == <<pc, fileName, todo, file, DataDF, MissingValues, WYDataDF, MoDataDF,
          AnnualAverages, MonthlyAverages, written, hist, arg, res>>

(***************************************************************************)
(* Floating values as exact fractions                                      *)
(***************************************************************************)
NaN == <<0, 0>>

Abs(x) == IF x < 0 THEN -x ELSE x

Sgn(x) == IF x < 0 THEN -1 ELSE IF x > 0 THEN 1 ELSE 0

RECURSIVE Gcd(_, _)
Gcd(a, b) == IF b = 0 THEN a ELSE Gcd(b, a % b)

\* n / d as a float: 0/0 is NaN, x/0 is +-inf, and so is anything built from them.
Frac(n, d) ==
    IF d = 0 THEN <<Sgn(n), 0>>
    ELSE LET g == Gcd(Abs(n), Abs(d))
         IN  <<Sgn(d) * (n \div g), Abs(d) \div g>>

Num(v) == <<v, 1>>

IsNaN(v) == v = NaN

IsFinite(v) == v[2] # 0

\* IEEE comparisons: every comparison with NaN is false.
Gt(a, b) ==
    /\ ~IsNaN(a)
    /\ ~IsNaN(b)
    /\ IF IsFinite(a) /\ IsFinite(b) THEN a[1] * b[2] > b[1] * a[2]
       ELSE IF IsFinite(a) THEN b[1] < 0
       ELSE IF IsFinite(b) THEN a[1] > 0
       ELSE a[1] > b[1]

Lt(a, b) == Gt(b, a)

Add(a, b) ==
    IF IsNaN(a) \/ IsNaN(b) THEN NaN
    ELSE IF IsFinite(a) /\ IsFinite(b)
         THEN Frac(a[1] * b[2] + b[1] * a[2], a[2] * b[2])
    ELSE IF IsFinite(a) THEN b
    ELSE IF IsFinite(b) THEN a
    ELSE IF a = b THEN a ELSE NaN

Neg(a) == <<-a[1], a[2]>>

Sub(a, b) == Add(a, Neg(b))

Mul(a, b) ==
    IF IsNaN(a) \/ IsNaN(b) THEN NaN
    ELSE IF IsFinite(a) /\ IsFinite(b) THEN Frac(a[1] * b[1], a[2] * b[2])
    ELSE <<Sgn(a[1]) * Sgn(b[1]), 0>>

Div(a, b) ==
    IF IsNaN(a) \/ IsNaN(b) THEN NaN
    ELSE IF IsFinite(a) /\ IsFinite(b) THEN Frac(a[1] * b[2], a[2] * b[1])
    ELSE IF IsFinite(a) THEN Num(0)
    ELSE IF IsFinite(b) THEN <<a[1] * (IF b[1] < 0 THEN -1 ELSE 1), 0>>
    ELSE NaN

FAbs(a) == <<Abs(a[1]), a[2]>>

(***************************************************************************)
(* Series reductions of pandas, all of them skipping NaN (skipna=True)     *)
(***************************************************************************)
\* the entries of s that are not NaN
SeqFilterNaN(s) == SelectSeq(s, LAMBDA v : ~IsNaN(v))

\* Series.count(): the number of entries that are not NaN.
Count(s) == Len(SeqFilterNaN(s))

\* s[lo] + ... + s[hi]; the sums are exact, so their grouping is immaterial
RECURSIVE SumFromTo(_, _, _)
SumFromTo(s, lo, hi) ==
    IF lo > hi THEN Num(0)
    ELSE IF lo = hi THEN s[lo]
    ELSE LET mid == (lo + hi) \div 2
         IN  Add(SumFromTo(s, lo, mid), SumFromTo(s, mid + 1, hi))

SumAll(s) == SumFromTo(s, 1, Len(s))

\* Series.sum(): NaN entries are skipped, the sum of nothing is 0.
NanSum(s) == SumAll(SeqFilterNaN(s))

\* Series.mean(): NaN entries are skipped, the mean of nothing is NaN (0/0).
NanMean(s) == Div(NanSum(s), Num(Count(s)))

RECURSIVE MaxAll(_)
MaxAll(s) ==
    IF Len(s) = 1 THEN Head(s)
    ELSE LET m == MaxAll(Tail(s)) IN IF Gt(Head(s), m) THEN Head(s) ELSE m

RECURSIVE MinAll(_)
MinAll(s) ==
    IF Len(s) = 1 THEN Head(s)
    ELSE LET m == MinAll(Tail(s)) IN IF Lt(Head(s), m) THEN Head(s) ELSE m

\* Series.max() / Series.min(): NaN entries are skipped, of nothing it is NaN.
NanMax(s) == LET v == SeqFilterNaN(s) IN IF v = <<>> THEN NaN ELSE MaxAll(v)

NanMin(s) == LET v == SeqFilterNaN(s) IN IF v = <<>> THEN NaN ELSE MinAll(v)

\* s with the value x inserted before the first entry greater than x.
RECURSIVE Insert(_, _)
Insert(x, s) ==
    IF s = <<>> THEN <<x>>
    ELSE IF Gt(Head(s), x) THEN <<x>> \o s
    ELSE <<Head(s)>> \o Insert(x, Tail(s))

RECURSIVE Sorted(_)
Sorted(s) == IF s = <<>> THEN <<>> ELSE Insert(Head(s), Sorted(Tail(s)))

\* Series.median(): of the values that are not NaN; of nothing it is NaN.
NanMedian(s) ==
    LET v == Sorted(SeqFilterNaN(s))
        n == Len(v)
    IN  IF n = 0 THEN NaN
        ELSE IF n % 2 = 1 THEN v[(n + 1) \div 2]
        ELSE Div(Add(v[n \div 2], v[n \div 2 + 1]), Num(2))


(***************************************************************************)
(* A value r that pandas obtains through a square root (std, skew) is held *)
(* as its signed square r * |r|, which is a fraction again.  r -> r * |r|  *)
(* is strictly increasing and keeps NaN, zero, the sign and the infinities.*)
(***************************************************************************)
SignedSquare(a) == Mul(a, FAbs(a))

RECURSIVE SumSqDev(_, _)
SumSqDev(v, mean) ==
    IF v = <<>> THEN Num(0)
    ELSE LET x == Sub(Head(v), mean) IN Add(Mul(x, x), SumSqDev(Tail(v), mean))

RECURSIVE SumCubeDev(_, _)
SumCubeDev(v, mean) ==
    IF v = <<>> THEN Num(0)
    ELSE LET x == Sub(Head(v), mean)
         IN  Add(Mul(x, Mul(x, x)), SumCubeDev(Tail(v), mean))

\* Series.std() (ddof = 1), as its signed square: NaN below two valid values.
NanStdSq(s) ==
    LET v == SeqFilterNaN(s)
        n == Len(v)
    IN  IF n < 2 THEN NaN
        ELSE Div(SumSqDev(v, NanMean(v)), Num(n - 1))

\* Series.skew() (pandas nanskew), as its signed square: NaN below three valid
\* values, 0 when the values do not vary, else
\* count * sqrt(count - 1) / (count - 2) * m3 / m2 ** 1.5.
NanSkewSq(s) ==
    LET v == SeqFilterNaN(s)
        n == Len(v)
        m2 == SumSqDev(v, NanMean(v))
        m3 == SumCubeDev(v, NanMean(v))
    IN  IF n < 3 THEN NaN
        ELSE IF m2 = Num(0) THEN Num(0)
        ELSE Mul(Frac(n * n * (n - 1), (n - 2) * (n - 2)),
                 Div(SignedSquare(m3), Mul(m2, Mul(m2, m2))))

(***************************************************************************)
(* The metric kernels, lines 67-129.  Qvalues is the Discharge column of   *)
(* one bucket, NaN entries included.                                       *)
(***************************************************************************)
RECURSIVE CountGt(_, _)
CountGt(Qvalues, x) ==
    IF Qvalues = <<>> THEN 0
    ELSE (IF Gt(Head(Qvalues), x) THEN 1 ELSE 0) + CountGt(Tail(Qvalues), x)

\* Faulty variants of CalcTqmean (>= for >) and, below, of Calc7Q (max for
\* min), AnnualBins (bins closed on the left), DataFrame.mean (sum for mean)
\* and the station loop (left after the first station): the claims are also
\* checked to fail on them.
RECURSIVE CountGe(_, _)
CountGe(Qvalues, x) ==
    IF Qvalues = <<>> THEN 0
    ELSE (IF ~Lt(Head(Qvalues), x) /\ ~IsNaN(Head(Qvalues)) /\ ~IsNaN(x) THEN 1 ELSE 0)
         + CountGe(Tail(Qvalues), x)

CalcTqmeanGe(Qvalues) ==
    Div(Num(CountGe(Qvalues, NanMean(Qvalues))), Num(Len(Qvalues)))

\* lines 76-80
CalcTqmean(Qvalues) ==
    LET vals_gt_mean == CountGt(Qvalues, NanMean(Qvalues))
    IN  Div(Num(vals_gt_mean), Num(Len(Qvalues)))

\* Series.diff().abs(): the first entry is NaN, and so is every difference
\* with a NaN operand.
DiffAbs(Qvalues) ==
    [i \in 1..Len(Qvalues) |->
        IF i = 1 THEN NaN ELSE FAbs(Sub(Qvalues[i], Qvalues[i - 1]))]

\* lines 92-102
CalcRBindex(Qvalues) ==
    LET Dtd_abs_diff == DiffAbs(Qvalues)
        pathlength == NanSum(Dtd_abs_diff)
        discharge_tot == NanSum(Qvalues)
    IN  Div(pathlength, discharge_tot)

\* the window of line 113
RollingWindow == 7

\* Series.rolling(window).mean() as pandas computes it (roll_mean): one pass
\* that adds the entering entry and removes the leaving one, counting the
\* valid entries of the window; min_periods is the window.
RECURSIVE RollMeanFrom(_, _, _, _, _)
RollMeanFrom(Qvalues, window, i, nobs, sum_x) ==
    IF i > Len(Qvalues) THEN <<>>
    ELSE LET inV == Qvalues[i]
             hasOut == i > window
             outV == IF hasOut THEN Qvalues[i - window] ELSE NaN
             nobs1 == nobs + (IF IsNaN(inV) THEN 0 ELSE 1)
                           - (IF IsNaN(outV) THEN 0 ELSE 1)
             sum1 == Sub(IF IsNaN(inV) THEN sum_x ELSE Add(sum_x, inV),
                         IF IsNaN(outV) THEN Num(0) ELSE outV)
             val == IF nobs1 >= window THEN Div(sum1, Num(nobs1)) ELSE NaN
         IN  <<val>> \o RollMeanFrom(Qvalues, window, i + 1, nobs1, sum1)

RollingMean(Qvalues, window) == RollMeanFrom(Qvalues, window, 1, 0, Num(0))

\* faulty variant: the greatest window mean
Calc7QMax(Qvalues) == NanMax(RollingMean(Qvalues, RollingWindow))

\* line 113
Calc7Q(Qvalues) == NanMin(RollingMean(Qvalues, RollingWindow))

\* lines 125-129
CalcExceed3TimesMedian(Qvalues) ==
    LET median_flow == NanMedian(Qvalues)
    IN  Num(CountGt(Qvalues, Mul(Num(3), median_flow)))

(***************************************************************************)
(* Dates                                                                   *)
(***************************************************************************)
DateLt(a, b) ==
    \/ a[1] < b[1]
    \/ a[1] = b[1] /\ a[2] < b[2]
    \/ a[1] = b[1] /\ a[2] = b[2] /\ a[3] < b[3]

DateLe(a, b) == a = b \/ DateLt(a, b)

IsLeap(y) == (y % 4 = 0 /\ y % 100 # 0) \/ y % 400 = 0

DaysInMonth(y, m) ==
    IF m = 2 THEN (IF IsLeap(y) THEN 29 ELSE 28)
    ELSE IF m \in {4, 6, 9, 11} THEN 30 ELSE 31

(***************************************************************************)
(* ReadData, lines 22-52.  An input file is [ok, lines]: ok is whether     *)
(* read_csv can open and tokenize it, lines are its lines that are neither *)
(* blank nor comments, each with the fields read_csv uses: Date, site_no   *)
(* and the Discharge token, [na |-> TRUE] for a blank or 'Eqp', else       *)
(* [na |-> FALSE, num |-> n].                                              *)
(***************************************************************************)
\* line 38: header=1 makes the second line the header; the data follow it.
HeaderLines == 2

\* lines 38-42: the frame read_csv returns, indexed by Date.
ReadCsv(f) ==
    [i \in 1..(Len(f.lines) - HeaderLines) |->
        LET l == f.lines[i + HeaderLines]
        IN  [Date |-> l.Date, site_no |-> l.site_no,
             Discharge |-> IF l.Discharge.na THEN NaN ELSE Num(l.Discharge.num)]]

Column(DF, col) == [i \in 1..Len(DF) |-> DF[i][col]]

\* Series.isna().sum()
IsNaSum(s) == Len(s) - Count(s)

\* line 50
ReplaceNegative(DF) ==
    [i \in 1..Len(DF) |->
        IF Lt(DF[i].Discharge, Num(0)) THEN [DF[i] EXCEPT !.Discharge = NaN]
        ELSE DF[i]]

\* lines 38-52: the pair returned; the count of line 45 is taken before line 50.
ReadData(f) ==
    LET DataDF0 == ReadCsv(f)
        Missing == IsNaSum(Column(DataDF0, "Discharge"))
    IN  <<ReplaceNegative(DataDF0), Missing>>

\* lines 60-65: .loc[startDate:endDate] on a sorted DatetimeIndex keeps the
\* labels from startDate to endDate, both included.
ClipData(DF, startDate, endDate) ==
    LET Clipped == SelectSeq(DF, LAMBDA r :
                        DateLe(startDate, r.Date) /\ DateLe(r.Date, endDate))
    IN  <<Clipped, IsNaSum(Column(Clipped, "Discharge"))>>

(***************************************************************************)
(* DataFrame.resample (pandas TimeGrouper._get_time_bins) for the two      *)
(* rules the script uses.  The index is sorted, so its minimum and maximum *)
(* are its first and last label.                                           *)
(***************************************************************************)
\* The anchor of 'A-SEP' in year y.
YearEnd(y) == <<y, 9, 30>>

\* d - YearEnd(month=9): the last anchor before d.
PrevYearEnd(d) == IF DateLt(YearEnd(d[1]), d) THEN YearEnd(d[1]) ELSE YearEnd(d[1] - 1)

\* d + YearEnd(month=9): the first anchor after d.
NextYearEnd(d) == IF DateLt(d, YearEnd(d[1])) THEN YearEnd(d[1]) ELSE YearEnd(d[1] + 1)

\* date_range(first, last, freq='A-SEP') between two anchors.
YearEndRange(first, last) ==
    [i \in 1..(last[1] - first[1] + 1) |-> YearEnd(first[1] + i - 1)]

\* MonthBegin.rollback(d): the first day of d's month.
MonthStart(d) == <<d[1], d[2], 1>>

\* d + MonthBegin(): the first month start after d.
NextMonthStart(d) == IF d[2] = 12 THEN <<d[1] + 1, 1, 1>> ELSE <<d[1], d[2] + 1, 1>>

MonthIndex(d) == d[1] * 12 + (d[2] - 1)

\* date_range(first, last, freq='MS') between two month starts.
MonthStartRange(first, last) ==
    [i \in 1..(MonthIndex(last) - MonthIndex(first) + 1) |->
        LET k == MonthIndex(first) + i - 1
        IN  <<k \div 12, (k % 12) + 1, 1>>]

\* _adjust_bin_edges: the last edge is dropped when the one before it already
\* lies after every label (the edges of a right-closed rule are ends of days).
AdjustBinEdges(binner, last, closedRight) ==
    LET n == Len(binner)
        beyond == IF closedRight THEN DateLe(last, binner[n - 1])
                  ELSE DateLt(last, binner[n - 1])
    IN  IF n >= 2 /\ beyond THEN SubSeq(binner, 1, n - 1) ELSE binner

\* the least k in lo..hi whose label is not before the end of the bin, hi + 1
\* if there is none
RECURSIVE FirstBeyond(_, _, _, _, _)
FirstBeyond(DF, lo, hi, r_bin, closedRight) ==
    IF lo > hi THEN hi + 1
    ELSE IF lo = hi
         THEN IF DateLt(DF[lo].Date, r_bin) \/ (closedRight /\ DF[lo].Date = r_bin)
              THEN hi + 1 ELSE lo
    ELSE LET mid == (lo + hi) \div 2
             l == FirstBeyond(DF, lo, mid, r_bin, closedRight)
         IN  IF l <= mid THEN l ELSE FirstBeyond(DF, mid + 1, hi, r_bin, closedRight)

\* the inner loop of generate_bins_dt64: from j on, j advances while the next
\* label is in the bin; the value of j it ends with
CountWhile(DF, j, r_bin, closedRight) ==
    FirstBeyond(DF, j + 1, Len(DF), r_bin, closedRight) - 1

\* generate_bins_dt64: bins[i] is the number of rows up to the end of bin i.
RECURSIVE GenerateBinsFrom(_, _, _, _, _)
GenerateBinsFrom(DF, binner, closedRight, i, j) ==
    IF i > Len(binner) - 1 THEN <<>>
    ELSE LET j1 == CountWhile(DF, j, binner[i + 1], closedRight)
         IN  <<j1>> \o GenerateBinsFrom(DF, binner, closedRight, i + 1, j1)

GenerateBins(DF, binner, closedRight) == GenerateBinsFrom(DF, binner, closedRight, 1, 0)

\* The groups of a resampler: one per bin, in order, each with its label and
\* its rows (none for a bin no label falls in).
Groups(DF, bins, labels) ==
    [i \in 1..Len(bins) |->
        [label |-> labels[i],
         rows |-> SubSeq(DF, (IF i = 1 THEN 0 ELSE bins[i - 1]) + 1, bins[i])]]

\* faulty variant: September 30 falls into the next water year
AnnualBinsClosedLeft(DF, binner) == GenerateBins(DF, binner, FALSE)

\* 'A-SEP' defaults to closed='right'
AnnualBins(DF, binner) == GenerateBins(DF, binner, TRUE)

\* lines 142, 148: resample('A-SEP'), closed and labelled on the right
ResampleASEP(DF) ==
    IF DF = <<>> THEN <<>>
    ELSE LET last == DF[Len(DF)].Date
             binner == AdjustBinEdges(
                           YearEndRange(PrevYearEnd(DF[1].Date), NextYearEnd(last)),
                           last, TRUE)
         IN  Groups(DF, AnnualBins(DF, binner), Tail(binner))

\* lines 173, 179: resample('MS'), closed and labelled on the left; the labels
\* are cut to the number of bins
ResampleMS(DF) ==
    IF DF = <<>> THEN <<>>
    ELSE LET last == DF[Len(DF)].Date
             binner == AdjustBinEdges(
                           MonthStartRange(MonthStart(DF[1].Date), NextMonthStart(last)),
                           last, FALSE)
         IN  Groups(DF, GenerateBins(DF, binner, FALSE), binner)

(***************************************************************************)
(* GetAnnualStatistics and GetMonthlyStatistics, lines 131-188.  A row of  *)
(* a metrics table is a function from "Date" (its index label) and the     *)
(* column names to values.  'Coeff Var' and 'Skew' hold signed squares.    *)
(***************************************************************************)
\* lines 137-138
AnnualColNames ==
    <<"site_no", "Mean Flow", "Peak Flow", "Median Flow", "Coeff Var", "Skew",
      "Tqmean", "R-B Index", "7Q", "3xMedian">>

\* line 169
MonthlyColNames == <<"site_no", "Mean Flow", "Coeff Var", "Tqmean", "R-B Index">>

\* the columns held as signed squares
RootColumns == {"Coeff Var", "Skew"}

\* std / mean * 100 (lines 155, 184), as its signed square
CoeffVar(Q) ==
    Mul(Div(NanStdSq(Q), SignedSquare(NanMean(Q))), SignedSquare(Num(100)))

\* lines 152, 183: the 'Mean Flow' entry of one bucket, under its label
MeanFlowRow(g) ==
    ("Date" :> g.label) @@ ("Mean Flow" :> NanMean(Column(g.rows, "Discharge")))

\* lines 151-160: the row of one water year
AnnualRow(g) ==
    LET Q == Column(g.rows, "Discharge")
    IN  MeanFlowRow(g)
        @@ ("site_no" :> NanMin([i \in 1..Len(g.rows) |-> Num(g.rows[i].site_no)]))
        @@ ("Peak Flow" :> NanMax(Q))
        @@ ("Median Flow" :> NanMedian(Q))
        @@ ("Coeff Var" :> CoeffVar(Q))
        @@ ("Skew" :> NanSkewSq(Q))
        @@ ("Tqmean" :> CalcTqmean(Q))
        @@ ("R-B Index" :> CalcRBindex(Q))
        @@ ("7Q" :> Calc7Q(Q))
        @@ ("3xMedian" :> CalcExceed3TimesMedian(Q))

\* lines 142-162
GetAnnualStatistics(DF) ==
    LET WYData == ResampleASEP(DF)
    IN  [i \in 1..Len(WYData) |-> AnnualRow(WYData[i])]

\* lines 182-186: the row of one month
MonthlyRow(g) ==
    LET Q == Column(g.rows, "Discharge")
    IN  MeanFlowRow(g)
        @@ ("site_no" :> NanMin([i \in 1..Len(g.rows) |-> Num(g.rows[i].site_no)]))
        @@ ("Coeff Var" :> CoeffVar(Q))
        @@ ("Tqmean" :> CalcTqmean(Q))
        @@ ("R-B Index" :> CalcRBindex(Q))

\* lines 173-188
GetMonthlyStatistics(DF) ==
    LET MoData == ResampleMS(DF)
    IN  [i \in 1..Len(MoData) |-> MonthlyRow(MoData[i])]

(***************************************************************************)
(* GetAnnualAverages and GetMonthlyAverages, lines 190-206.  The mean of a *)
(* column of signed squares is not a fraction: it is held as the list of   *)
(* the valid entries it averages.                                          *)
(***************************************************************************)
\* faulty variant: the column's sum
ColumnSum(DF, col) ==
    IF col \in RootColumns THEN [meanOfRoots |-> SeqFilterNaN(Column(DF, col))]
    ELSE NanSum(Column(DF, col))

\* DataFrame.mean() of one column, NaN entries skipped
ColumnMean(DF, col) ==
    IF col \in RootColumns THEN [meanOfRoots |-> SeqFilterNaN(Column(DF, col))]
    ELSE NanMean(Column(DF, col))

Range(s) == {s[i] : i \in 1..Len(s)}

\* line 195
GetAnnualAverages(WYDF) == [col \in Range(AnnualColNames) |-> ColumnMean(WYDF, col)]

\* the set {1, ..., 12} cut to the months MoDF has rows of, ascending
RECURSIVE MonthsFrom(_, _)
MonthsFrom(MoDF, m) ==
    IF m > 12 THEN <<>>
    ELSE (IF \E i \in 1..Len(MoDF) : MoDF[i]["Date"][2] = m THEN <<m>> ELSE <<>>)
         \o MonthsFrom(MoDF, m + 1)

\* groupby(index.month): the rows of MoDF labelled with calendar month m
MonthGroup(MoDF, m) == SelectSeq(MoDF, LAMBDA r : r["Date"][2] = m)

\* line 204: one row per calendar month present in the index
GetMonthlyAverages(MoDF) ==
    LET months == MonthsFrom(MoDF, 1)
    IN  [k \in 1..Len(months) |->
            ("Date" :> months[k])
            @@ [col \in Range(MonthlyColNames) |->
                    ColumnMean(MonthGroup(MoDF, months[k]), col)]]

\* lines 152 and 195: the 'Mean Flow' entry of
\* GetAnnualAverages(GetAnnualStatistics(DF))
AnnualMeanFlowAverage(DF) ==
    LET WYData == ResampleASEP(DF)
    IN  ColumnMean([i \in 1..Len(WYData) |-> MeanFlowRow(WYData[i])], "Mean Flow")

\* lines 183 and 204: for each calendar month, the 'Mean Flow' entry of its row
\* in GetMonthlyAverages(GetMonthlyStatistics(DF)); NaN stands for no row
MonthlyMeanFlowAverages(DF) ==
    LET MoData == ResampleMS(DF)
        MoDF == [i \in 1..Len(MoData) |-> MeanFlowRow(MoData[i])]
    IN  [m \in 1..12 |-> ColumnMean(MonthGroup(MoDF, m), "Mean Flow")]

(***************************************************************************)
(* Input files                                                             *)
(***************************************************************************)
RECURSIVE SetToSeq(_)
SetToSeq(S) ==
    IF S = {} THEN <<>>
    ELSE LET m == CHOOSE x \in S : \A y \in S : x <= y
         IN  <<m>> \o SetToSeq(S \ {m})

\* The Discharge tokens of the files: blank or 'Eqp', a negative reading, and
\* two valid readings.
Tokens ==
    {[na |-> TRUE, num |-> 0], [na |-> FALSE, num |-> -1],
     [na |-> FALSE, num |-> 0], [na |-> FALSE, num |-> 2]}

\* The two lines read_csv takes as header, not read as data.
HeaderOfFile == <<[header |-> "agency_cd site_no datetime discharge qualifier"],
                  [header |-> "5s 15s 20d 14n 10s"]>>

\* The readable files with 1..maxRows daily records, dated (ascending, as USGS
\* writes them) with dates of pool.
FilesOver(pool, maxRows, site) ==
    UNION {
        { [ok |-> TRUE,
           lines |-> HeaderOfFile \o
               [i \in 1..Cardinality(S) |->
                   [Date |-> pool[SetToSeq(S)[i]], site_no |-> site,
                    Discharge |-> tok[SetToSeq(S)[i]]]]] : tok \in [S -> Tokens] }
        : S \in {T \in SUBSET (1..Len(pool)) :
                    Cardinality(T) >= 1 /\ Cardinality(T) <= maxRows} }

\* A file read_csv cannot open or tokenize.
UnreadableFile == [ok |-> FALSE, lines |-> <<>>]

(***************************************************************************)
(* The script, lines 212-307                                               *)
(***************************************************************************)
\* lines 218-219: the keys of fileName, in insertion order
Stations == <<"Wildcat", "Tippe">>

\* line 238
ClipStart == <<1969, 10, 1>>

ClipEnd == <<2019, 9, 30>>

\* the most records a station file of the script model holds
MaxStationRows == 1

StationPool == <<<<1969, 9, 30>>, <<1969, 10, 1>>, <<1970, 10, 1>>, <<2019, 10, 1>>>>

\* lines 218-219: the site number in the name of each station's file
SiteNo == [Wildcat |-> 3335000, Tippe |-> 3331500]

\* what the file of station s may hold
StationFiles(s) == {UnreadableFile} \cup FilesOver(StationPool, MaxStationRows, SiteNo[s])

NoDict == <<>>

\* dict[key] = value
SetItem(dict, key, value) == (key :> value) @@ dict

\* DataFrame['Station'] = name
AddStation(DF, name) == [i \in 1..Len(DF) |-> ("Station" :> name) @@ DF[i]]

HarnessIdle == arg = <<>> /\ res = <<>>

\* lines 218-227
Init ==
    /\ pc = "loop"
    /\ fileName \in {[Wildcat |-> w, Tippe |-> t] :
                         w \in StationFiles("Wildcat"), t \in StationFiles("Tippe")}
    /\ todo = Stations
    /\ file = ""
    /\ DataDF = NoDict
    /\ MissingValues = NoDict
    /\ WYDataDF = NoDict
    /\ MoDataDF = NoDict
    /\ AnnualAverages = NoDict
    /\ MonthlyAverages = NoDict
    /\ written = <<>>
    /\ hist = <<>>
    /\ HarnessIdle

\* faulty variant: the loop is left after the first station
LoopSkipsRest ==
    /\ pc = "loop"
    /\ \/ /\ Len(todo) = Len(Stations)
          /\ file' = Head(todo)
          /\ todo' = Tail(todo)
          /\ pc' = "ReadData"
       \/ /\ Len(todo) < Len(Stations)
          /\ pc' = "Annual_Metrics.csv"
          /\ UNCHANGED <<file, todo>>
    /\ UNCHANGED <<fileName, DataDF, MissingValues, WYDataDF, MoDataDF,
                   AnnualAverages, MonthlyAverages, written, hist, arg, res>>

\* line 230: the next key, or the statements after the loop
Loop ==
    /\ pc = "loop"
    /\ \/ /\ todo # <<>>
          /\ file' = Head(todo)
          /\ todo' = Tail(todo)
          /\ pc' = "ReadData"
       \/ /\ todo = <<>>
          /\ pc' = "Annual_Metrics.csv"
          /\ UNCHANGED <<file, todo>>
    /\ UNCHANGED <<fileName, DataDF, MissingValues, WYDataDF, MoDataDF,
                   AnnualAverages, MonthlyAverages, written, hist, arg, res>>

\* line 234: nothing catches what read_csv raises, so the script ends there
DoReadData ==
    /\ pc = "ReadData"
    /\ \/ /\ ~fileName[file].ok
          /\ pc' = "error"
          /\ UNCHANGED <<DataDF, MissingValues, hist>>
       \/ /\ fileName[file].ok
          /\ LET r == ReadData(fileName[file])
             IN  /\ DataDF' = SetItem(DataDF, file, r[1])
                 /\ MissingValues' = SetItem(MissingValues, file, r[2])
          /\ hist' = Append(hist, <<file, "ReadData">>)
          /\ pc' = "ClipData"
    /\ UNCHANGED <<fileName, todo, file, WYDataDF, MoDataDF, AnnualAverages,
                   MonthlyAverages, written, arg, res>>

\* line 238
DoClipData ==
    /\ pc = "ClipData"
    /\ LET r == ClipData(DataDF[file], ClipStart, ClipEnd)
       IN  /\ DataDF' = SetItem(DataDF, file, r[1])
           /\ MissingValues' = SetItem(MissingValues, file, r[2])
    /\ hist' = Append(hist, <<file, "ClipData">>)
    /\ pc' = "GetAnnualStatistics"
    /\ UNCHANGED <<fileName, todo, file, WYDataDF, MoDataDF, AnnualAverages,
                   MonthlyAverages, written, arg, res>>

\* line 242
DoGetAnnualStatistics ==
    /\ pc = "GetAnnualStatistics"
    /\ WYDataDF' = SetItem(WYDataDF, file, GetAnnualStatistics(DataDF[file]))
    /\ hist' = Append(hist, <<file, "GetAnnualStatistics">>)
    /\ pc' = "GetAnnualAverages"
    /\ UNCHANGED <<fileName, todo, file, DataDF, MissingValues, MoDataDF,
                   AnnualAverages, MonthlyAverages, written, arg, res>>

\* line 245
DoGetAnnualAverages ==
    /\ pc = "GetAnnualAverages"
    /\ AnnualAverages' = SetItem(AnnualAverages, file, GetAnnualAverages(WYDataDF[file]))
    /\ hist' = Append(hist, <<file, "GetAnnualAverages">>)
    /\ pc' = "GetMonthlyStatistics"
    /\ UNCHANGED <<fileName, todo, file, DataDF, MissingValues, WYDataDF, MoDataDF,
                   MonthlyAverages, written, arg, res>>

\* line 250
DoGetMonthlyStatistics ==
    /\ pc = "GetMonthlyStatistics"
    /\ MoDataDF' = SetItem(MoDataDF, file, GetMonthlyStatistics(DataDF[file]))
    /\ hist' = Append(hist, <<file, "GetMonthlyStatistics">>)
    /\ pc' = "GetMonthlyAverages"
    /\ UNCHANGED <<fileName, todo, file, DataDF, MissingValues, WYDataDF,
                   AnnualAverages, MonthlyAverages, written, arg, res>>

\* line 253, and back to line 230
DoGetMonthlyAverages ==
    /\ pc = "GetMonthlyAverages"
    /\ MonthlyAverages' = SetItem(MonthlyAverages, file, GetMonthlyAverages(MoDataDF[file]))
    /\ hist' = Append(hist, <<file, "GetMonthlyAverages">>)
    /\ pc' = "loop"
    /\ UNCHANGED <<fileName, todo, file, DataDF, MissingValues, WYDataDF, MoDataDF,
                   AnnualAverages, written, arg, res>>

\* to_csv(name, sep): the file written, with the rows it holds
CsvFile(name, sep, table) == [name |-> name, sep |-> sep, table |-> table]

\* lines 261-268: the Station column is set in the tables WYDataDF holds
WriteAnnualMetrics ==
    /\ pc = "Annual_Metrics.csv"
    /\ LET a_Wildcat == AddStation(WYDataDF["Wildcat"], "Wildcat")
           a_Tippe == AddStation(WYDataDF["Tippe"], "Tippe")
       IN  /\ WYDataDF' = SetItem(SetItem(WYDataDF, "Wildcat", a_Wildcat), "Tippe", a_Tippe)
           /\ written' = Append(written, CsvFile("Annual_Metrics.csv", ",", a_Wildcat \o a_Tippe))
    /\ pc' = "Monthly_Metrics.csv"
    /\ UNCHANGED <<fileName, todo, file, DataDF, MissingValues, MoDataDF,
                   AnnualAverages, MonthlyAverages, hist, arg, res>>

\* lines 274-281
WriteMonthlyMetrics ==
    /\ pc = "Monthly_Metrics.csv"
    /\ LET m_Wildcat == AddStation(MoDataDF["Wildcat"], "Wildcat")
           m_Tippe == AddStation(MoDataDF["Tippe"], "Tippe")
       IN  /\ MoDataDF' = SetItem(SetItem(MoDataDF, "Wildcat", m_Wildcat), "Tippe", m_Tippe)
           /\ written' = Append(written, CsvFile("Monthly_Metrics.csv", ",", m_Wildcat \o m_Tippe))
    /\ pc' = "Average_Annual_Metrics.txt"
    /\ UNCHANGED <<fileName, todo, file, DataDF, MissingValues, WYDataDF,
                   AnnualAverages, MonthlyAverages, hist, arg, res>>

\* lines 287-294: the two Series, each with a 'Station' entry, one after the other
WriteAnnualAverages ==
    /\ pc = "Average_Annual_Metrics.txt"
    /\ LET aav_Wildcat == SetItem(AnnualAverages["Wildcat"], "Station", "Wildcat")
           aav_Tippe == SetItem(AnnualAverages["Tippe"], "Station", "Tippe")
       IN  /\ AnnualAverages' =
                  SetItem(SetItem(AnnualAverages, "Wildcat", aav_Wildcat), "Tippe", aav_Tippe)
           /\ written' = Append(written,
                  CsvFile("Average_Annual_Metrics.txt", "\t", <<aav_Wildcat, aav_Tippe>>))
    /\ pc' = "Average_Monthly_Metrics.txt"
    /\ UNCHANGED <<fileName, todo, file, DataDF, MissingValues, WYDataDF, MoDataDF,
                   MonthlyAverages, hist, arg, res>>

\* lines 300-307
WriteMonthlyAverages ==
    /\ pc = "Average_Monthly_Metrics.txt"
    /\ LET mav_Wildcat == AddStation(MonthlyAverages["Wildcat"], "Wildcat")
           mav_Tippe == AddStation(MonthlyAverages["Tippe"], "Tippe")
       IN  /\ MonthlyAverages' =
                  SetItem(SetItem(MonthlyAverages, "Wildcat", mav_Wildcat), "Tippe", mav_Tippe)
           /\ written' = Append(written,
                  CsvFile("Average_Monthly_Metrics.txt", "\t", mav_Wildcat \o mav_Tippe))
    /\ pc' = "done"
    /\ UNCHANGED <<fileName, todo, file, DataDF, MissingValues, WYDataDF, MoDataDF,
                   AnnualAverages, hist, arg, res>>

Next ==
    \/ Loop
    \/ DoReadData
    \/ DoClipData
    \/ DoGetAnnualStatistics
    \/ DoGetAnnualAverages
    \/ DoGetMonthlyStatistics
    \/ DoGetMonthlyAverages
    \/ WriteAnnualMetrics
    \/ WriteMonthlyMetrics
    \/ WriteAnnualAverages
    \/ WriteMonthlyAverages

Spec == Init /\ [][Next]_vars

(***************************************************************************)
(* The functions on their own.  SpecFn applies ReadData to a file and then *)
(* one of ClipData, GetAnnualStatistics, GetMonthlyStatistics to the frame *)
(* it returned; res maps the name of each function applied to its result.  *)
(***************************************************************************)
ScriptIdle ==
    /\ fileName = NoDict
    /\ todo = <<>>
    /\ file = ""
    /\ DataDF = NoDict
    /\ MissingValues = NoDict
    /\ WYDataDF = NoDict
    /\ MoDataDF = NoDict
    /\ AnnualAverages = NoDict
    /\ MonthlyAverages = NoDict
    /\ written = <<>>
    /\ hist = <<>>

scriptVars == <<fileName, todo, file, DataDF, MissingValues, WYDataDF, MoDataDF,
                AnnualAverages, MonthlyAverages, written, hist>>

\* the most records a file of SpecFn holds
MaxRows == 3

\* Dates on both sides of two water-year ends, and one a year later, so that
\* a water year without any record lies in between.
FnPool ==
    <<<<1969, 9, 30>>, <<1969, 10, 1>>, <<1969, 10, 2>>, <<1970, 9, 30>>,
      <<1970, 10, 1>>, <<1971, 10, 15>>>>

InitFn ==
    /\ pc = "input"
    /\ arg \in FilesOver(FnPool, MaxRows, 3335000)
    /\ res = <<>>
    /\ ScriptIdle

FnReadData ==
    /\ pc = "input"
    /\ res' = ("ReadData" :> ReadData(arg))
    /\ pc' = "read"
    /\ UNCHANGED <<arg, scriptVars>>

FnClipData ==
    /\ pc = "read"
    /\ \E startDate \in Range(FnPool), endDate \in Range(FnPool) :
          res' = ("ClipData" :> [startDate |-> startDate, endDate |-> endDate,
                                 out |-> ClipData(res["ReadData"][1], startDate, endDate)])
                 @@ res
    /\ pc' = "done"
    /\ UNCHANGED <<arg, scriptVars>>

FnGetAnnualStatistics ==
    /\ pc = "read"
    /\ res' = ("GetAnnualStatistics" :> GetAnnualStatistics(res["ReadData"][1])) @@ res
    /\ pc' = "done"
    /\ UNCHANGED <<arg, scriptVars>>

FnGetMonthlyStatistics ==
    /\ pc = "read"
    /\ res' = ("GetMonthlyStatistics" :> GetMonthlyStatistics(res["ReadData"][1])) @@ res
    /\ pc' = "done"
    /\ UNCHANGED <<arg, scriptVars>>

NextFn ==
    \/ FnReadData
    \/ FnClipData
    \/ FnGetAnnualStatistics
    \/ FnGetMonthlyStatistics

SpecFn == InitFn /\ [][NextFn]_vars

(***************************************************************************)
(* SpecKernel applies one metric kernel to a Discharge column.             *)
(***************************************************************************)
\* the longest column of SpecKernel
MaxLen == 8

QValues == {NaN, Num(0), Num(1)}

InitKernel ==
    /\ pc = "input"
    /\ arg \in UNION {[1..n -> QValues] : n \in 0..MaxLen}
    /\ res = <<>>
    /\ ScriptIdle

KernelCalcTqmean ==
    /\ pc = "input"
    /\ res' = ("CalcTqmean" :> CalcTqmean(arg))
    /\ pc' = "done"
    /\ UNCHANGED <<arg, scriptVars>>

KernelCalcRBindex ==
    /\ pc = "input"
    /\ res' = ("CalcRBindex" :> CalcRBindex(arg))
    /\ pc' = "done"
    /\ UNCHANGED <<arg, scriptVars>>

KernelCalc7Q ==
    /\ pc = "input"
    /\ res' = ("Calc7Q" :> Calc7Q(arg))
    /\ pc' = "done"
    /\ UNCHANGED <<arg, scriptVars>>

KernelCalcExceed3TimesMedian ==
    /\ pc = "input"
    /\ res' = ("CalcExceed3TimesMedian" :> CalcExceed3TimesMedian(arg))
    /\ pc' = "done"
    /\ UNCHANGED <<arg, scriptVars>>

NextKernel ==
    \/ KernelCalcTqmean
    \/ KernelCalcRBindex
    \/ KernelCalc7Q
    \/ KernelCalcExceed3TimesMedian

SpecKernel == InitKernel /\ [][NextKernel]_vars

(***************************************************************************)
(* SpecRoundTrip takes the 'Mean Flow' averages of a record with one row   *)
(* for every day of NumYears water years.  The Discharge of a day is the   *)
(* level of its water year, raised by amp from March to May; with miss,    *)
(* the reading of February 29 is missing.                                  *)
(***************************************************************************)
\* the water years of a record of SpecRoundTrip
NumYears == 2

RTFirstYears == {1971, 1972}

RTLevels == 0..2

RECURSIVE DateFrom(_, _, _)
\* the k-th day counted from the first of month m of year y
DateFrom(y, m, k) ==
    IF k <= DaysInMonth(y, m) THEN <<y, m, k>>
    ELSE IF m = 12 THEN DateFrom(y + 1, 1, k - DaysInMonth(y, m))
    ELSE DateFrom(y, m + 1, k - DaysInMonth(y, m))

RECURSIVE DaysOfWaterYears(_, _)
DaysOfWaterYears(Y, n) ==
    IF n = 0 THEN 0
    ELSE (IF IsLeap(Y) THEN 366 ELSE 365) + DaysOfWaterYears(Y + 1, n - 1)

\* the daily record from October 1 of a.Y0 - 1 to September 30 of a.Y0 + NumYears - 1
DailySeries(a) ==
    [k \in 1..DaysOfWaterYears(a.Y0, NumYears) |->
        LET d == DateFrom(a.Y0 - 1, 10, k)
            wy == IF d[2] >= 10 THEN d[1] + 1 ELSE d[1]
        IN  [Date |-> d, site_no |-> 3335000,
             Discharge |->
                 IF a.miss /\ d[2] = 2 /\ d[3] = 29 THEN NaN
                 ELSE Num(a.level[wy - a.Y0 + 1]
                          + (IF d[2] \in {3, 4, 5} THEN a.amp ELSE 0))]]

InitRoundTrip ==
    /\ pc = "input"
    /\ arg \in {[Y0 |-> a.Y0, DF |-> DailySeries(a)] :
                    a \in [Y0 : RTFirstYears, level : [1..NumYears -> RTLevels],
                           amp : {0, 1}, miss : BOOLEAN]}
    /\ res = <<>>
    /\ ScriptIdle

RoundTripAnnual ==
    /\ pc = "input"
    /\ res' = ("annual" :> AnnualMeanFlowAverage(arg.DF))
    /\ pc' = "done"
    /\ UNCHANGED <<arg, scriptVars>>

RoundTripMonthly ==
    /\ pc = "input"
    /\ res' = ("monthly" :> MonthlyMeanFlowAverages(arg.DF))
    /\ pc' = "done"
    /\ UNCHANGED <<arg, scriptVars>>

NextRoundTrip ==
    \/ RoundTripAnnual
    \/ RoundTripMonthly

SpecRoundTrip == InitRoundTrip /\ [][NextRoundTrip]_vars

(***************************************************************************)
(* Claims about ReadData, ClipData and the two statistics tables (SpecFn)  *)
(***************************************************************************)
Done(fn) == fn \in DOMAIN res

\* C1: the missing count ReadData returns is the number of missing Discharge
\* entries of the frame it returns (negative readings included, as they are
\* missing in that frame).
C1_MissingCountOfReturnedSeries ==
    Done("ReadData") =>
        res["ReadData"][2] = IsNaSum(Column(res["ReadData"][1], "Discharge"))

InRange(d, startDate, endDate) == DateLe(startDate, d) /\ DateLe(d, endDate)

\* C2: ClipData keeps exactly the rows dated from start to end, both included,
\* in their order, and never more rows than it was given; the frame it was
\* given is afterwards what ReadData returned; clipping the frame ReadData
\* returned to its own first and last date returns that frame, with the missing
\* count ReadData reported.
C2_ClipKeepsRangeAndOwnRangeIsIdentity ==
    Done("ClipData") =>
        LET DF == res["ReadData"][1]
            c == res["ClipData"]
            kept == c.out[1]
        IN  /\ Range(kept) = {r \in Range(DF) : InRange(r.Date, c.startDate, c.endDate)}
            /\ \A i, j \in 1..Len(kept) : i < j => DateLt(kept[i].Date, kept[j].Date)
            /\ Len(kept) <= Len(DF)
            /\ res["ReadData"] = ReadData(arg)
            /\ (c.startDate = DF[1].Date /\ c.endDate = DF[Len(DF)].Date) =>
                   /\ kept = DF
                   /\ c.out[2] = res["ReadData"][2]

\* The water year of a date: the year Y with October 1 of Y-1 <= d <= September 30 of Y.
InWaterYear(d, Y) == DateLe(<<Y - 1, 10, 1>>, d) /\ DateLe(d, <<Y, 9, 30>>)

WaterYearOf(d) == CHOOSE Y \in (d[1])..(d[1] + 1) : InWaterYear(d, Y)

\* C3: the annual table has one row for each water year from that of the first
\* record to that of the last, labelled September 30 of the year, also for a
\* water year without records; a record is in the bucket of the row labelled
\* September 30 of Y exactly if it is dated in water year Y, so it is in one
\* bucket only, and the row is the summary of exactly these records.
C3_WaterYearBuckets ==
    Done("GetAnnualStatistics") =>
        LET DF == res["ReadData"][1]
            T == res["GetAnnualStatistics"]
            WYData == ResampleASEP(DF)
            firstWY == WaterYearOf(DF[1].Date)
            lastWY == WaterYearOf(DF[Len(DF)].Date)
        IN  /\ Len(T) = lastWY - firstWY + 1
            /\ Len(WYData) = Len(T)
            /\ \A i \in 1..Len(T) :
                   LET Y == firstWY + i - 1
                       ofYear == SelectSeq(DF, LAMBDA r : InWaterYear(r.Date, Y))
                   IN  /\ T[i]["Date"] = <<Y, 9, 30>>
                       /\ \A k \in 1..Len(DF) :
                              (DF[k] \in Range(WYData[i].rows)) <=> InWaterYear(DF[k].Date, Y)
                       /\ T[i] = AnnualRow([label |-> <<Y, 9, 30>>, rows |-> ofYear])
            /\ \A k \in 1..Len(DF) :
                   Cardinality({i \in 1..Len(T) : DF[k] \in Range(WYData[i].rows)}) = 1

\* C3's case: records on September 30 and on October 1, and a water year
\* without records between two with records.
C3_Witness ==
    /\ Done("GetAnnualStatistics")
    /\ LET DF == res["ReadData"][1]
           WYData == ResampleASEP(DF)
       IN  /\ \E k \in 1..Len(DF) : DF[k].Date = <<1969, 9, 30>>
           /\ \E k \in 1..Len(DF) : DF[k].Date = <<1969, 10, 1>>
           /\ \E i \in 2..(Len(WYData) - 1) : WYData[i].rows = <<>>
           /\ Len(res["GetAnnualStatistics"]) = 4

AnnualMetrics ==
    {"Mean Flow", "Peak Flow", "Median Flow", "Coeff Var", "Skew", "Tqmean",
     "R-B Index", "7Q", "3xMedian"}

MonthlyMetrics == {"Mean Flow", "Coeff Var", "Tqmean", "R-B Index"}

NoValidObservation(g) == Count(Column(g.rows, "Discharge")) = 0

\* C4: in the annual and in the monthly table, the row of a bucket without a
\* valid observation (no rows, or only missing Discharge values) is NaN in
\* every metric.
C4_EmptyBucketAllNaN ==
    /\ Done("GetAnnualStatistics") =>
           LET WYData == ResampleASEP(res["ReadData"][1])
               T == res["GetAnnualStatistics"]
           IN  \A i \in 1..Len(T) :
                   NoValidObservation(WYData[i]) =>
                       \A col \in AnnualMetrics : IsNaN(T[i][col])
    /\ Done("GetMonthlyStatistics") =>
           LET MoData == ResampleMS(res["ReadData"][1])
               T == res["GetMonthlyStatistics"]
           IN  \A i \in 1..Len(T) :
                   NoValidObservation(MoData[i]) =>
                       \A col \in MonthlyMetrics : IsNaN(T[i][col])

(***************************************************************************)
(* Claims about the metric kernels (SpecKernel)                            *)
(***************************************************************************)
InUnitInterval(v) == IsFinite(v) /\ v[1] >= 0 /\ v[1] <= v[2]

Constant(Q) ==
    \A i, j \in 1..Len(Q) : (~IsNaN(Q[i]) /\ ~IsNaN(Q[j])) => Q[i] = Q[j]

\* C6: for a non-empty column of non-negative and missing values, CalcRBindex
\* is not negative, and it is 0 exactly if the column is constant.
C6_RBindexZeroIffConstant ==
    (Done("CalcRBindex") /\ Len(arg) > 0) =>
        /\ ~Lt(res["CalcRBindex"], Num(0))
        /\ (res["CalcRBindex"] = Num(0)) <=> Constant(arg)

\* the windows of 7 consecutive entries that are all values, by their last index
FullWindows(Q) ==
    {k \in 7..Len(Q) : \A i \in (k - 6)..k : ~IsNaN(Q[i])}

WindowMean(Q, k) ==
    Frac(Q[k - 6][1] + Q[k - 5][1] + Q[k - 4][1] + Q[k - 3][1] + Q[k - 2][1]
         + Q[k - 1][1] + Q[k][1], 7)

Discharges(DF) == Column(DF, "Discharge")

\* the records of water year Y
OfWaterYear(DF, Y) == SelectSeq(DF, LAMBDA r : InWaterYear(r.Date, Y))

\* the records of month m of year y
OfMonth(DF, y, m) == SelectSeq(DF, LAMBDA r : r.Date[1] = y /\ r.Date[2] = m)

\* the records of calendar month m of any year
OfCalendarMonth(DF, m) == SelectSeq(DF, LAMBDA r : r.Date[2] = m)

RTWaterYears == [i \in 1..NumYears |-> arg.Y0 + i - 1]

\* the calendar years the record touches, and those of them that have a month m
RTYears == [i \in 1..(NumYears + 1) |-> arg.Y0 + i - 2]

RTYearsWithMonth(m) ==
    SelectSeq(RTYears, LAMBDA y : OfMonth(arg.DF, y, m) # <<>>)

\* C8 as stated: the annual average of 'Mean Flow' is the mean of all daily
\* values of the record, and the monthly average of 'Mean Flow' of calendar
\* month m is the mean of all daily values dated in a month m.
C8_RoundTripReproducesDailyMean ==
    /\ Done("annual") => res["annual"] = NanMean(Discharges(arg.DF))
    /\ Done("monthly") =>
           \A m \in 1..12 :
               res["monthly"][m] = NanMean(Discharges(OfCalendarMonth(arg.DF, m)))

\* C8 as amended: the annual average of 'Mean Flow' is the unweighted mean of
\* the mean flows of the water years, the monthly one of calendar month m that
\* of the mean flows of the months m; each is the mean of all the daily values
\* concerned when the buckets averaged hold equally many valid observations.
C8_AverageOfBucketMeans ==
    /\ Done("annual") =>
           LET bucket == [i \in 1..NumYears |->
                             Discharges(OfWaterYear(arg.DF, RTWaterYears[i]))]
           IN  /\ res["annual"] = NanMean([i \in 1..NumYears |-> NanMean(bucket[i])])
               /\ (\A i, j \in 1..NumYears : Count(bucket[i]) = Count(bucket[j])) =>
                      res["annual"] = NanMean(Discharges(arg.DF))
    /\ Done("monthly") =>
           \A m \in 1..12 :
               LET ys == RTYearsWithMonth(m)
                   bucket == [i \in 1..Len(ys) |-> Discharges(OfMonth(arg.DF, ys[i], m))]
               IN  /\ res["monthly"][m] = NanMean([i \in 1..Len(ys) |-> NanMean(bucket[i])])
                   /\ (\A i, j \in 1..Len(ys) : Count(bucket[i]) = Count(bucket[j])) =>
                          res["monthly"][m] = NanMean(Discharges(OfCalendarMonth(arg.DF, m)))

\* C8's case: water years of different mean flow with equally many valid
\* observations (the reading of February 29 is missing).
C8_Witness ==
    /\ Done("annual")
    /\ LET bucket == [i \in 1..NumYears |->
                         Discharges(OfWaterYear(arg.DF, RTWaterYears[i]))]
       IN  /\ \A i, j \in 1..NumYears : Count(bucket[i]) = Count(bucket[j])
           /\ \E i, j \in 1..NumYears : NanMean(bucket[i]) # NanMean(bucket[j])
           /\ \E i \in 1..NumYears : Count(bucket[i]) < Len(bucket[i])

(***************************************************************************)
(* Claims about the script (Spec)                                          *)
(***************************************************************************)
\* the functions called for station s so far, in order
RECURSIVE CallsIn(_, _)
CallsIn(h, s) ==
    IF h = <<>> THEN <<>>
    ELSE (IF Head(h)[1] = s THEN <<Head(h)[2]>> ELSE <<>>) \o CallsIn(Tail(h), s)

SixCalls ==
    <<"ReadData", "ClipData", "GetAnnualStatistics", "GetAnnualAverages",
      "GetMonthlyStatistics", "GetMonthlyAverages">>

OutputOrder ==
    <<"Annual_Metrics.csv", "Monthly_Metrics.csv", "Average_Annual_Metrics.txt",
      "Average_Monthly_Metrics.txt">>

Completed(s) == CallsIn(hist, s) = SixCalls

Terminated == pc \in {"done", "error"}

\* C9: when the script has ended and the file of a station could not be
\* loaded, every other station has gone through the six functions and the
\* four files with its tables are written.
C9_FailureAbortsOnlyThatStation ==
    (Terminated /\ \E f \in Range(Stations) : ~fileName[f].ok) =>
        \A s \in Range(Stations) :
            fileName[s].ok => (Completed(s) /\ Len(written) = Len(OutputOrder))

\* C10: the calls made for a station are the six functions in their order; no
\* file is written, and no statement that writes one is reached, before every
\* station has completed the six; the files are written in the fixed order;
\* after a failure no file is written.
C10_OutputsOnlyAfterAllStations ==
    /\ \A s \in Range(Stations) :
           /\ Len(CallsIn(hist, s)) <= Len(SixCalls)
           /\ CallsIn(hist, s) = SubSeq(SixCalls, 1, Len(CallsIn(hist, s)))
    /\ (written # <<>> \/ pc \in Range(OutputOrder) \/ pc = "done") =>
           \A s \in Range(Stations) : Completed(s)
    /\ Len(written) <= Len(OutputOrder)
    /\ \A i \in 1..Len(written) : written[i].name = OutputOrder[i]
    /\ pc = "error" => written = <<>>
    /\ pc = "done" => Len(written) = Len(OutputOrder)

\* C10's case: both stations processed and the four files written.
C10_Witness ==
    /\ pc = "done"
    /\ Len(written) = 4
    /\ \A s \in Range(Stations) : Completed(s)

=============================================================================
